---- MODULE Spec2Model ----
(***************************************************************************)
(* Model of the recipe API: the Recipe / Tag / Ingredient tables, the      *)
(* RecipeSerializer create/update logic (serializers.py) and the viewsets  *)
(* that scope every query to the requesting user (views.py).               *)
(*                                                                         *)
(* The store is the database in autocommit mode: every ORM call persists   *)
(* at once, an exception raised later in the request does not undo it.     *)
(* The only recipe scalar kept is the title; time_minutes, price, link     *)
(* and description are handled by the same setattr loop.                   *)
(* The Tag and Ingredient tables carry no uniqueness constraint on         *)
(* (user, name). A request is handled as a whole in one step; the client   *)
(* then reads the response (Receive) before it sends the next request.     *)
(***************************************************************************)
EXTENDS Integers, Sequences, FiniteSets, TLC

\* ---------------------------------------------------------------- bounds
MaxRecipes == 2
MaxTags == 2
MaxIngredients == 2
MaxLen == 2
MaxIngLen == 1

Users == {"u1", "u2"}
\* the owners a body may name in its 'user' key
PayloadUsers == {"u2"}
Names == {"a", "b"}
Titles == {"t1", "t2"}

\* ------------------------------------------------------- optional values
\* A key of a payload is absent (None) or carries a value (Some(v)).
None == {}
Some(v) == {v}
Get(o) == CHOOSE v \in o : TRUE

SeqsUpTo(S, n) == UNION {[1..k -> S] : k \in 0..n}
Opt(S) == {None} \cup {Some(v) : v \in S}

\* The JSON bodies a client may send to the recipe endpoints.
Payloads ==
    [title : Opt(Titles),
     user : Opt(PayloadUsers),
     tags : Opt(SeqsUpTo(Names, MaxLen)),
     ingredients : Opt(SeqsUpTo(Names, MaxIngLen))]

VARIABLES Recipe, Tag, Ingredient, nextRecipeId, nextTagId, nextIngredientId, last,
          workers, cmd, db

vars == <<Recipe, Tag, Ingredient, nextRecipeId, nextTagId, nextIngredientId, last,
          workers, cmd, db>>

\* The database as one value, threaded through the ORM calls of a request.
Store ==
    [Recipe |-> Recipe, Tag |-> Tag, Ingredient |-> Ingredient,
     nextRecipeId |-> nextRecipeId, nextTagId |-> nextTagId,
     nextIngredientId |-> nextIngredientId]

Without(f, k) == [x \in DOMAIN f \ {k} |-> f[x]]

\* ------------------------------------------------------------ ORM calls
\* The rows of a Tag / Ingredient table with a given owner and name.
RowsOf(table, owner, name) ==
    {t \in DOMAIN table : table[t].user = owner /\ table[t].name = name}

\* Tag.objects.create(user=..., name=...): always inserts a row, with the
\* next id of the table's sequence.
TagCreate(st, user, name) ==
    [st EXCEPT !.Tag = @ @@ (st.nextTagId :> [user |-> user, name |-> name]),
               !.nextTagId = @ + 1]

\* recipe.tags.add(tag_obj) with a model instance.
TagsAdd(st, rid, tid) ==
    [st EXCEPT !.Recipe[rid].tags = @ \cup {tid}]

\* instance.tags.clear() left out
TagsClearNothing(st, rid) == st

\* instance.tags.clear()
TagsClear(st, rid) ==
    [st EXCEPT !.Recipe[rid].tags = {}]

\* Ingredient.objects.get_or_create(user=..., name=...): returns the pair
\* (object, created); raises MultipleObjectsReturned on several matches.
IngredientGetOrCreate(st, user, name) ==
    LET matches == {i \in DOMAIN st.Ingredient :
                       /\ st.Ingredient[i].user = user
                       /\ st.Ingredient[i].name = name}
    IN  IF matches = {}
        THEN [st |-> [st EXCEPT
                        !.Ingredient = @ @@ (st.nextIngredientId :>
                                               [user |-> user, name |-> name]),
                        !.nextIngredientId = @ + 1],
              raised |-> FALSE,
              value |-> [kind |-> "tuple", obj |-> st.nextIngredientId,
                         created |-> TRUE]]
        ELSE IF Cardinality(matches) = 1
        THEN [st |-> st, raised |-> FALSE,
              value |-> [kind |-> "tuple", obj |-> Get(matches),
                         created |-> FALSE]]
        ELSE [st |-> st, raised |-> TRUE,
              value |-> [kind |-> "none", obj |-> 0, created |-> FALSE]]

\* recipe.ingredients.add(x): x must be an Ingredient instance (or a primary
\* key); the (object, created) pair is neither, and the call raises TypeError.
IngredientsAdd(st, rid, x) ==
    IF x.kind = "instance"
    THEN [st |-> [st EXCEPT !.Recipe[rid].ingredients = @ \cup {x.obj}],
          raised |-> FALSE]
    ELSE [st |-> st, raised |-> TRUE]

\* ----------------------------------------------------------- serializer
\* RecipeSerializer._get_or_create_tags
RECURSIVE get_or_create_tags(_, _, _, _)
get_or_create_tags(st, auth_user, tags, rid) ==
    IF tags = <<>>
    THEN st
    ELSE LET tag_obj == st.nextTagId
             s1 == TagCreate(st, auth_user, Head(tags))
             s2 == TagsAdd(s1, rid, tag_obj)
         IN  get_or_create_tags(s2, auth_user, Tail(tags), rid)

\* RecipeSerializer._get_co_create_ingredients
RECURSIVE get_co_create_ingredients(_, _, _, _)
get_co_create_ingredients(st, auth_user, ingredients, rid) ==
    IF ingredients = <<>>
    THEN [st |-> st, raised |-> FALSE]
    ELSE LET g == IngredientGetOrCreate(st, auth_user, Head(ingredients))
         IN  IF g.raised
             THEN [st |-> g.st, raised |-> TRUE]
             ELSE LET a == IngredientsAdd(g.st, rid, g.value)
                  IN  IF a.raised
                      THEN [st |-> a.st, raised |-> TRUE]
                      ELSE get_co_create_ingredients(a.st, auth_user,
                                                     Tail(ingredients), rid)

\* Meta.fields with 'user' listed among the writable fields
ValidatedDataKeepUser(payload) ==
    [title |-> payload.title, user |-> payload.user,
     tags |-> payload.tags, ingredients |-> payload.ingredients]

\* RecipeSerializer.Meta.fields: the keys of the body that reach
\* validated_data; 'user' is not a serializer field and is dropped.
ValidatedData(payload) ==
    [title |-> payload.title, user |-> None,
     tags |-> payload.tags, ingredients |-> payload.ingredients]

\* RecipeSerializer.create, called by save(user=request.user)
SerializerCreate(st, validated_data, save_user, auth_user) ==
    LET tags == IF validated_data.tags = None THEN <<>>
                ELSE Get(validated_data.tags)
        ingredients == IF validated_data.ingredients = None THEN <<>>
                       ELSE Get(validated_data.ingredients)
        rid == st.nextRecipeId
        s1 == [st EXCEPT
                 !.Recipe = @ @@ (rid :> [user |-> save_user,
                                          title |-> Get(validated_data.title),
                                          tags |-> {}, ingredients |-> {}]),
                 !.nextRecipeId = @ + 1]
        s2 == get_or_create_tags(s1, auth_user, tags, rid)
    IN  get_co_create_ingredients(s2, auth_user, ingredients, rid)

\* update with validated_data.pop('tags', []) in place of pop('tags', None):
\* an absent list is handled as an empty one
SerializerUpdateDefaultList(st, rid, validated_data, auth_user) ==
    LET tags == IF validated_data.tags # None
                THEN Get(validated_data.tags) ELSE <<>>
        s1 == get_or_create_tags(TagsClear(st, rid), auth_user, tags, rid)
        raised == validated_data.ingredients # None
        title == IF validated_data.title # None
                 THEN Get(validated_data.title) ELSE s1.Recipe[rid].title
        user == IF validated_data.user # None
                THEN Get(validated_data.user) ELSE s1.Recipe[rid].user
    IN  IF raised
        THEN [st |-> s1, raised |-> TRUE]
        ELSE [st |-> [s1 EXCEPT !.Recipe[rid].title = title,
                                !.Recipe[rid].user = user],
              raised |-> FALSE]

\* RecipeSerializer.update
SerializerUpdate(st, rid, validated_data, auth_user) ==
    LET s1 == IF validated_data.tags # None
              THEN get_or_create_tags(TagsClear(st, rid), auth_user,
                                      Get(validated_data.tags), rid)
              ELSE st
        \* setattr loop over the remaining keys, in field order; assigning
        \* to the many-to-many attribute 'ingredients' raises TypeError
        raised == validated_data.ingredients # None
        title == IF validated_data.title # None
                 THEN Get(validated_data.title) ELSE s1.Recipe[rid].title
        user == IF validated_data.user # None
                THEN Get(validated_data.user) ELSE s1.Recipe[rid].user
    IN  IF raised
        THEN [st |-> s1, raised |-> TRUE]
        ELSE [st |-> [s1 EXCEPT !.Recipe[rid].title = title,
                                !.Recipe[rid].user = user],
              raised |-> FALSE]

\* ---------------------------------------------------------------- views
\* Query-string ids are decimal strings; int(str_id) reads them back.
Digits == <<"1", "2", "3", "4", "5", "6", "7", "8", "9">>
IdTokens(n) == {Digits[i] : i \in 1..n}
int(str_id) == CHOOSE n \in 1..Len(Digits) : Digits[n] = str_id

\* The values of the 'tags' / 'ingredients' query parameters, already split
\* at the commas.
QueryParams ==
    [tags : Opt(SeqsUpTo(IdTokens(MaxTags), MaxLen)),
     ingredients : Opt(SeqsUpTo(IdTokens(MaxIngredients), MaxIngLen))]
NoQuery == [tags |-> None, ingredients |-> None]

\* RecipeViewSet._params_to_ints
params_to_ints(qs) == {int(qs[i]) : i \in 1..Len(qs)}

\* queryset.filter(tags__id__in=tag_ids): joins the association table, one
\* row <<recipe, tag, ingredient>> per matching association (0 = not joined)
FilterTagsIdIn(st, q, tag_ids) ==
    {x \in {<<row[1], t, row[3]>> : row \in q, t \in tag_ids} :
        x[2] \in st.Recipe[x[1]].tags}

\* queryset.filter(ingredients__id__in=ingredient_ids)
FilterIngredientsIdIn(st, q, ingredient_ids) ==
    {x \in {<<row[1], row[2], i>> : row \in q, i \in ingredient_ids} :
        x[3] \in st.Recipe[x[1]].ingredients}

\* get_queryset without the filter on the requesting user
FilterUserNone(st, q, user) == q

\* queryset.filter(user=...)
FilterUser(st, q, user) == {row \in q : st.Recipe[row[1]].user = user}

\* order_by('-id'): the recipe of every row, highest id first
RECURSIVE OrderByIdDesc(_)
OrderByIdDesc(q) ==
    IF q = {} THEN <<>>
    ELSE LET row == CHOOSE x \in q : \A y \in q : y[1] <= x[1]
         IN  <<row[1]>> \o OrderByIdDesc(q \ {row})

\* distinct(): keeps the first of equal rows
RECURSIVE Distinct(_)
Distinct(s) ==
    IF s = <<>> THEN <<>>
    ELSE LET rest == Distinct(Tail(s))
         IN  <<Head(s)>> \o SelectSeq(rest, LAMBDA x : x # Head(s))

\* get_queryset without the closing distinct()
get_queryset_joined(st, user, query) ==
    LET q0 == {<<r, 0, 0>> : r \in DOMAIN st.Recipe}
        q1 == IF query.tags # None /\ Get(query.tags) # <<>>
              THEN FilterTagsIdIn(st, q0, params_to_ints(Get(query.tags)))
              ELSE q0
        q2 == IF query.ingredients # None /\ Get(query.ingredients) # <<>>
              THEN FilterIngredientsIdIn(st, q1,
                       params_to_ints(Get(query.ingredients)))
              ELSE q1
    IN  OrderByIdDesc(FilterUser(st, q2, user))

\* RecipeViewSet.get_queryset; an absent or empty parameter is falsy
get_queryset(st, user, query) ==
    LET q0 == {<<r, 0, 0>> : r \in DOMAIN st.Recipe}
        q1 == IF query.tags # None /\ Get(query.tags) # <<>>
              THEN FilterTagsIdIn(st, q0, params_to_ints(Get(query.tags)))
              ELSE q0
        q2 == IF query.ingredients # None /\ Get(query.ingredients) # <<>>
              THEN FilterIngredientsIdIn(st, q1,
                       params_to_ints(Get(query.ingredients)))
              ELSE q1
    IN  Distinct(OrderByIdDesc(FilterUser(st, q2, user)))

SeqToSet(s) == {s[i] : i \in 1..Len(s)}

\* the attribute queryset without the filter on the requesting user
AttrQuerysetAll(table, user) == DOMAIN table

\* BaseRecipeAttrViewSet.get_queryset, as the set of rows get_object searches
AttrQueryset(table, user) == {i \in DOMAIN table : table[i].user = user}

\* The request handled last and its response. payload is the body when the
\* request reached the serializer, pre the targeted recipe as get_object
\* returned it, query the list parameters, data the listed recipe ids.
NoPayload == [title |-> None, user |-> None, tags |-> None, ingredients |-> None]
Response(op, user, id, method, status, payload, pre, query, data) ==
    [op |-> op, user |-> user, id |-> id, method |-> method, status |-> status,
     payload |-> payload, pre |-> pre, query |-> query, data |-> data]
Plain(op, user, id, method, status) ==
    Response(op, user, id, method, status, NoPayload, None, NoQuery, <<>>)
NoRequest == Plain("none", "u1", 0, "NONE", 0)

Commit(st) ==
    /\ Recipe' = st.Recipe
    /\ Tag' = st.Tag
    /\ Ingredient' = st.Ingredient
    /\ nextRecipeId' = st.nextRecipeId
    /\ nextTagId' = st.nextTagId
    /\ nextIngredientId' = st.nextIngredientId

\* The id sequences of the tables stop at the bounds.
WithinBounds(st) ==
    /\ st.nextRecipeId <= MaxRecipes + 1
    /\ st.nextTagId <= MaxTags + 1
    /\ st.nextIngredientId <= MaxIngredients + 1

storeVars == <<Recipe, Tag, Ingredient, nextRecipeId, nextTagId, nextIngredientId>>

\* No request is being handled: the client has read the last response.
Idle == last = NoRequest

\* get_object over Recipe.objects.all() in place of get_queryset()
RecipeVisibleAny(st, u, id) == id \in DOMAIN st.Recipe

\* GenericAPIView.get_object over RecipeViewSet.get_queryset
RecipeVisible(st, u, id) == id \in SeqToSet(get_queryset(st, u, NoQuery))

\* ------------------------------------------------------------- requests

\* POST /recipes: CreateModelMixin.create -> perform_create -> serializer
CreateRecipe(u, payload) ==
    /\ Idle
    /\ IF payload.title = None
       THEN /\ last' = Plain("create", u, 0, "POST", 400)
            /\ UNCHANGED storeVars
       ELSE LET res == SerializerCreate(Store, ValidatedData(payload), u, u)
            IN  /\ WithinBounds(res.st)
                /\ Commit(res.st)
                /\ last' = Response("create", u, nextRecipeId, "POST",
                                    IF res.raised THEN 500 ELSE 201,
                                    payload, None, NoQuery, <<>>)

\* PATCH / PUT /recipes/{id}: get_object, validation (a PUT body must carry
\* the required fields, a PATCH body any subset), then serializer.update
UpdateRecipe(u, id, method, payload) ==
    /\ Idle
    /\ IF ~RecipeVisible(Store, u, id)
       THEN /\ last' = Plain("update", u, id, method, 404)
            /\ UNCHANGED storeVars
       ELSE IF method = "PUT" /\ payload.title = None
       THEN /\ last' = Plain("update", u, id, method, 400)
            /\ UNCHANGED storeVars
       ELSE LET res == SerializerUpdate(Store, id, ValidatedData(payload), u)
            IN  /\ WithinBounds(res.st)
                /\ Commit(res.st)
                /\ last' = Response("update", u, id, method,
                                    IF res.raised THEN 500 ELSE 200,
                                    payload, Some(Recipe[id]), NoQuery, <<>>)

\* DELETE /recipes/{id}
DestroyRecipe(u, id) ==
    /\ Idle
    /\ IF ~RecipeVisible(Store, u, id)
       THEN /\ last' = Plain("destroy", u, id, "DELETE", 404)
            /\ UNCHANGED storeVars
       ELSE /\ Recipe' = Without(Recipe, id)
            /\ last' = Response("destroy", u, id, "DELETE", 204, NoPayload,
                                Some(Recipe[id]), NoQuery, <<>>)
            /\ UNCHANGED <<Tag, Ingredient, nextRecipeId, nextTagId, nextIngredientId>>

\* GET /recipes?tags=..&ingredients=..
ListRecipes(u, query) ==
    /\ Idle
    /\ last' = Response("list", u, 0, "GET", 200, NoPayload, None,
                        query, get_queryset(Store, u, query))
    /\ UNCHANGED storeVars

\* PATCH /tags/{id} with a name
UpdateTag(u, id, name) ==
    /\ Idle
    /\ IF id \notin AttrQueryset(Tag, u)
       THEN /\ last' = Plain("update_tag", u, id, "PATCH", 404)
            /\ UNCHANGED storeVars
       ELSE /\ Tag' = [Tag EXCEPT ![id].name = name]
            /\ last' = Plain("update_tag", u, id, "PATCH", 200)
            /\ UNCHANGED <<Recipe, Ingredient, nextRecipeId, nextTagId, nextIngredientId>>

\* DELETE /tags/{id}: the row and its association rows go
DestroyTag(u, id) ==
    /\ Idle
    /\ IF id \notin AttrQueryset(Tag, u)
       THEN /\ last' = Plain("destroy_tag", u, id, "DELETE", 404)
            /\ UNCHANGED storeVars
       ELSE /\ Tag' = Without(Tag, id)
            /\ Recipe' = [r \in DOMAIN Recipe |->
                             [Recipe[r] EXCEPT !.tags = @ \ {id}]]
            /\ last' = Plain("destroy_tag", u, id, "DELETE", 204)
            /\ UNCHANGED <<Ingredient, nextRecipeId, nextTagId, nextIngredientId>>

\* PATCH /ingredients/{id} with a name
UpdateIngredient(u, id, name) ==
    /\ Idle
    /\ IF id \notin AttrQueryset(Ingredient, u)
       THEN /\ last' = Plain("update_ingredient", u, id, "PATCH", 404)
            /\ UNCHANGED storeVars
       ELSE /\ Ingredient' = [Ingredient EXCEPT ![id].name = name]
            /\ last' = Plain("update_ingredient", u, id, "PATCH", 200)
            /\ UNCHANGED <<Recipe, Tag, nextRecipeId, nextTagId, nextIngredientId>>

\* ------------------------------------------------------- specification
EmptyTable == [x \in {} |-> 0]

\* The Tag and Ingredient rows set up through the ORM before the first request.
SeedTag == EmptyTable
SeedIngredient == (1 :> [user |-> "u1", name |-> "a"])

\* The workers that handle requests side by side; none has a request yet.
Workers == {"w1", "w2"}
WorkerIdle ==
    [pc |-> "idle", user |-> "u1", data |-> [tags |-> <<>>, ingredients |-> <<>>],
     tags |-> <<>>, ingredients |-> <<>>, rid |-> 0,
     obj |-> [kind |-> "none", obj |-> 0, created |-> FALSE]]

\* The wait_for_db command before handle() runs.
CommandNotRun ==
    [pc |-> "start", db_up |-> FALSE, stdout |-> <<>>, slept |-> 0,
     checked |-> "none"]

\* What a request of the API leaves alone.
sideVars == <<workers, cmd, db>>

\* The database before the first request holds what the tests set up through
\* the ORM: an ingredient of u1 attached to a recipe of u1.
Init ==
    /\ last = NoRequest
    /\ Tag = SeedTag
    /\ nextTagId = 1
    /\ Ingredient = SeedIngredient
    /\ Recipe = (1 :> [user |-> "u1", title |-> "t1", tags |-> {},
                       ingredients |-> {1}])
    /\ nextRecipeId = 2
    /\ nextIngredientId = 2
    /\ workers = [w \in Workers |-> WorkerIdle]
    /\ cmd = CommandNotRun
    /\ db = "up"

RecipeIds == 1..MaxRecipes
TagIds == 1..MaxTags

\* The client reads the response; the next request can then be sent.
Receive ==
    /\ last # NoRequest
    /\ last' = NoRequest
    /\ UNCHANGED storeVars
    /\ UNCHANGED sideVars

\* A request is sent once the previous response has been read.
Next ==
    \/ Idle /\ UNCHANGED sideVars /\ \E u \in Users, payload \in Payloads : CreateRecipe(u, payload)
    \/ Idle /\ UNCHANGED sideVars /\ \E u \in Users, id \in RecipeIds, method \in {"PATCH", "PUT"},
                  payload \in Payloads : UpdateRecipe(u, id, method, payload)
    \/ Idle /\ UNCHANGED sideVars /\ \E u \in Users, id \in RecipeIds : DestroyRecipe(u, id)
    \/ Idle /\ UNCHANGED sideVars /\ \E u \in Users, query \in QueryParams : ListRecipes(u, query)
    \/ Idle /\ UNCHANGED sideVars /\ \E u \in Users, id \in TagIds, name \in Names :
                  UpdateTag(u, id, name)
    \/ Idle /\ UNCHANGED sideVars /\ \E u \in Users, id \in TagIds : DestroyTag(u, id)
    \/ Receive

Spec == Init /\ [][Next]_vars

IngredientIds == 1..MaxIngredients

\* Recipes are created while tags and ingredients are renamed through their
\* own endpoints, which is how several rows of one owner come to share a name.
NextTie ==
    \/ Idle /\ UNCHANGED sideVars /\ \E u \in Users, payload \in Payloads : CreateRecipe(u, payload)
    \/ Idle /\ UNCHANGED sideVars /\ \E u \in Users, id \in TagIds, name \in Names :
                  UpdateTag(u, id, name)
    \/ Idle /\ UNCHANGED sideVars /\ \E u \in Users, id \in IngredientIds, name \in Names :
                  UpdateIngredient(u, id, name)
    \/ Receive

\* The database holds one ingredient of u1, set up through the ORM, and no
\* recipe yet.
InitTie ==
    /\ last = NoRequest
    /\ Tag = SeedTag
    /\ nextTagId = 1
    /\ Ingredient = SeedIngredient
    /\ Recipe = EmptyTable
    /\ nextRecipeId = 1
    /\ nextIngredientId = 2
    /\ workers = [w \in Workers |-> WorkerIdle]
    /\ cmd = CommandNotRun
    /\ db = "up"

SpecTie == InitTie /\ [][NextTie]_vars

\* ------------------------------------------- requests handled side by side
\* Each worker handles one POST /recipes; every ORM call of
\* RecipeSerializer.create is one statement on the shared database and the
\* statements of the two workers interleave freely.

\* Whether the Tag and Ingredient tables reject a second row of one
\* (user, name): they do not.
UniqueOwnerName == FALSE

\* The bodies of the concurrent requests: valid, with both lists given.
ConcPayloads ==
    {p \in Payloads : p.title = Some("t1") /\ p.user = None
                         /\ p.tags # None /\ p.ingredients # None}

\* Where create() goes on once the lists hold what wk's lists hold.
Continue(wk) ==
    IF wk.tags # <<>> THEN "tag_create"
    ELSE IF wk.ingredients # <<>> THEN "ing_get"
    ELSE "done"

\* A worker takes a request: perform_create -> save(user=request.user) ->
\* create(), which pops both lists from validated_data.
Start(w, u, payload) ==
    /\ workers[w].pc = "idle"
    /\ workers' = [workers EXCEPT ![w] =
                      [@ EXCEPT !.pc = "create", !.user = u,
                                !.data = [tags |-> Get(ValidatedData(payload).tags),
                                          ingredients |->
                                              Get(ValidatedData(payload).ingredients)],
                                !.tags = Get(ValidatedData(payload).tags),
                                !.ingredients =
                                    Get(ValidatedData(payload).ingredients)]]
    /\ UNCHANGED storeVars

\* recipe = Recipe.objects.create(**validated_data)
RecipeInsert(w) ==
    /\ workers[w].pc = "create"
    /\ Recipe' = Recipe @@ (nextRecipeId :> [user |-> workers[w].user,
                                             title |-> "t1", tags |-> {},
                                             ingredients |-> {}])
    /\ nextRecipeId' = nextRecipeId + 1
    /\ workers' = [workers EXCEPT ![w] =
                      [@ EXCEPT !.rid = nextRecipeId,
                                !.pc = Continue(workers[w])]]
    /\ UNCHANGED <<Tag, Ingredient, nextTagId, nextIngredientId>>

\* tag_obj = Tag.objects.create(user=auth_user, **tag)
TagInsert(w) ==
    /\ workers[w].pc = "tag_create"
    /\ LET wk == workers[w]
       IN  IF UniqueOwnerName /\ RowsOf(Tag, wk.user, Head(wk.tags)) # {}
           THEN /\ workers' = [workers EXCEPT ![w].pc = "failed"]
                /\ UNCHANGED storeVars
           ELSE /\ Commit(TagCreate(Store, wk.user, Head(wk.tags)))
                /\ workers' = [workers EXCEPT ![w] =
                                  [@ EXCEPT !.pc = "tag_add",
                                            !.obj = [kind |-> "instance",
                                                     obj |-> nextTagId,
                                                     created |-> TRUE]]]

\* recipe.tags.add(tag_obj), then the next tag of the loop
TagAdd(w) ==
    /\ workers[w].pc = "tag_add"
    /\ LET wk == workers[w]
       IN  /\ Commit(TagsAdd(Store, wk.rid, wk.obj.obj))
           /\ workers' = [workers EXCEPT ![w] =
                             [@ EXCEPT !.tags = Tail(@),
                                       !.pc = Continue([wk EXCEPT
                                                          !.tags = Tail(@)])]]

\* get_or_create, first half: the SELECT of the rows with this user and name
IngredientGet(w) ==
    /\ workers[w].pc = "ing_get"
    /\ LET wk == workers[w]
           matches == RowsOf(Ingredient, wk.user, Head(wk.ingredients))
       IN  workers' = [workers EXCEPT ![w] =
              IF matches = {} THEN [@ EXCEPT !.pc = "ing_insert"]
              ELSE IF Cardinality(matches) = 1
              THEN [@ EXCEPT !.pc = "ing_add",
                             !.obj = [kind |-> "tuple", obj |-> Get(matches),
                                      created |-> FALSE]]
              ELSE [@ EXCEPT !.pc = "failed"]]
    /\ UNCHANGED storeVars

\* get_or_create, second half: the INSERT after a SELECT that found no row;
\* a rejected INSERT sends get_or_create back to the SELECT
IngredientInsert(w) ==
    /\ workers[w].pc = "ing_insert"
    /\ LET wk == workers[w]
       IN  IF UniqueOwnerName
              /\ RowsOf(Ingredient, wk.user, Head(wk.ingredients)) # {}
           THEN /\ workers' = [workers EXCEPT ![w].pc = "ing_get"]
                /\ UNCHANGED storeVars
           ELSE /\ Ingredient' = Ingredient @@
                      (nextIngredientId :> [user |-> wk.user,
                                            name |-> Head(wk.ingredients)])
                /\ nextIngredientId' = nextIngredientId + 1
                /\ workers' = [workers EXCEPT ![w] =
                                  [@ EXCEPT !.pc = "ing_add",
                                            !.obj = [kind |-> "tuple",
                                                     obj |-> nextIngredientId,
                                                     created |-> TRUE]]]
                /\ UNCHANGED <<Recipe, Tag, nextRecipeId, nextTagId>>

\* recipe.ingredients.add(ingredient_obj), then the next ingredient
IngredientAdd(w) ==
    /\ workers[w].pc = "ing_add"
    /\ LET wk == workers[w]
           a == IngredientsAdd(Store, wk.rid, wk.obj)
       IN  /\ Commit(a.st)
           /\ workers' = [workers EXCEPT ![w] =
                 IF a.raised THEN [@ EXCEPT !.pc = "failed"]
                 ELSE [@ EXCEPT !.ingredients = Tail(@),
                                !.pc = Continue([wk EXCEPT
                                                   !.tags = <<>>,
                                                   !.ingredients = Tail(@)])]]

NextConc ==
    \/ UNCHANGED <<last, cmd, db>>
       /\ \E w \in Workers, u \in Users, payload \in ConcPayloads :
             Start(w, u, payload)
    \/ UNCHANGED <<last, cmd, db>> /\ \E w \in Workers : RecipeInsert(w)
    \/ UNCHANGED <<last, cmd, db>> /\ \E w \in Workers : TagInsert(w)
    \/ UNCHANGED <<last, cmd, db>> /\ \E w \in Workers : TagAdd(w)
    \/ UNCHANGED <<last, cmd, db>> /\ \E w \in Workers : IngredientGet(w)
    \/ UNCHANGED <<last, cmd, db>> /\ \E w \in Workers : IngredientInsert(w)
    \/ UNCHANGED <<last, cmd, db>> /\ \E w \in Workers : IngredientAdd(w)

SpecConc == Init /\ [][NextConc]_vars

\* ------------------------------------------------- wait_for_db command
\* What the database server is doing: accepting connections, still starting
\* (the driver raises Psycopg2Error) or refusing them (Django raises
\* OperationalError).
DbStates == {"up", "starting", "refusing"}

\* The failing checks the command is followed through.
MaxRetries == 12

\* self.check(databases=['default']): returns, or raises what the server's
\* condition makes it raise
CheckOutcome(state) ==
    IF state = "up" THEN "ok"
    ELSE IF state = "starting" THEN "Psycopg2Error"
    ELSE "OperationalError"

\* handle(), up to the loop
Begin ==
    /\ cmd.pc = "start"
    /\ cmd' = [cmd EXCEPT !.stdout = Append(@, "Waiting for database ..."),
                          !.db_up = FALSE, !.pc = "loop"]
    /\ UNCHANGED db

\* the loop body with db_up = True in a finally clause: set after a check
\* that raised as well
CheckFinally ==
    /\ cmd.pc = "loop" /\ cmd.db_up = FALSE
    /\ LET outcome == CheckOutcome(db)
       IN  IF outcome = "ok"
           THEN cmd' = [cmd EXCEPT !.checked = outcome, !.db_up = TRUE,
                                   !.pc = "report"]
           ELSE /\ cmd.slept < MaxRetries
                /\ cmd' = [cmd EXCEPT
                             !.checked = outcome, !.db_up = TRUE,
                             !.stdout = Append(@,
                                "database unavaliable, waiting 1 second..."),
                             !.pc = "sleep"]
    /\ UNCHANGED db

\* while db_up == False: try: self.check(...); db_up = True
\* except (Psycopg2Error, OperationalError): self.stdout.write(...)
Check ==
    /\ cmd.pc = "loop" /\ cmd.db_up = FALSE
    /\ LET outcome == CheckOutcome(db)
       IN  IF outcome = "ok"
           THEN cmd' = [cmd EXCEPT !.checked = outcome, !.db_up = TRUE,
                                   !.pc = "report"]
           ELSE /\ cmd.slept < MaxRetries
                /\ cmd' = [cmd EXCEPT
                             !.checked = outcome,
                             !.stdout = Append(@,
                                "database unavaliable, waiting 1 second..."),
                             !.pc = "sleep"]
    /\ UNCHANGED db

\* time.sleep(1), then the loop test again
Sleep ==
    /\ cmd.pc = "sleep"
    /\ cmd' = [cmd EXCEPT !.slept = @ + 1,
                          !.pc = IF cmd.db_up = FALSE THEN "loop" ELSE "report"]
    /\ UNCHANGED db

\* self.stdout.write(self.style.SUCCESS('Database Avaliable!')); handle returns
Report ==
    /\ cmd.pc = "report"
    /\ cmd' = [cmd EXCEPT !.stdout = Append(@, "Database Avaliable!"),
                          !.pc = "done"]
    /\ UNCHANGED db

\* The database server changes its condition at any time.
DbChange ==
    /\ \E state \in DbStates \ {db} : db' = state
    /\ UNCHANGED cmd

\* The statements of handle()
Handle == Begin \/ Check \/ Sleep \/ Report

InitWait ==
    /\ last = NoRequest
    /\ Tag = SeedTag
    /\ nextTagId = 1
    /\ Ingredient = SeedIngredient
    /\ Recipe = EmptyTable
    /\ nextRecipeId = 1
    /\ nextIngredientId = 2
    /\ workers = [w \in Workers |-> WorkerIdle]
    /\ cmd = CommandNotRun
    /\ db \in DbStates

NextWait ==
    \/ Begin /\ UNCHANGED <<storeVars, last, workers>>
    \/ Check /\ UNCHANGED <<storeVars, last, workers>>
    \/ Sleep /\ UNCHANGED <<storeVars, last, workers>>
    \/ Report /\ UNCHANGED <<storeVars, last, workers>>
    \/ DbChange /\ UNCHANGED <<storeVars, last, workers>>

\* The command is a running process: a statement that can be executed is
\* executed, self.check returns or raises and time.sleep(1) returns.
SpecWait == InitWait /\ [][NextWait]_vars /\ WF_cmd(Handle)

TypeOK ==
    /\ DOMAIN Recipe \subseteq RecipeIds
    /\ DOMAIN Tag \subseteq TagIds
    /\ \A r \in DOMAIN Recipe :
          /\ Recipe[r].tags \subseteq DOMAIN Tag
          /\ Recipe[r].ingredients \subseteq DOMAIN Ingredient

\* --------------------------------------------------------------- claims
NoRepeat(s) == \A i, j \in 1..Len(s) : s[i] = s[j] => i = j

\* The step handles a recipe create or update whose body reached the
\* serializer (last' is its response).
Reconciles == last'.op \in {"create", "update"} /\ last'.status \in {200, 201, 500}

\* C1: resolve-or-create never duplicates a tag row. For a create or update
\* request of an owner whose tag list names each tag once: a name that
\* already has a row of the owner gets no new row, and a name with at most
\* one row before has exactly one row afterwards.
C1_NoDuplicateTagRow ==
    [][(Reconciles /\ last'.payload.tags # None
        /\ NoRepeat(Get(last'.payload.tags)))
       => \A name \in SeqToSet(Get(last'.payload.tags)) :
            LET before == RowsOf(Tag, last'.user, name)
                after == RowsOf(Tag', last'.user, name)
            IN  /\ before # {} => after = before
                /\ Cardinality(before) <= 1 => Cardinality(after) = 1]_vars

\* C2: after a successful update (PATCH or PUT) the recipe's owner is the
\* owner it had before the request, whatever 'user' the body carries.
C2_OwnerUnchanged ==
    (last.op = "update" /\ last.status = 200)
    => Recipe[last.id].user = Get(last.pre).user

\* C2 witness: a successful update whose body names another user as owner.
C2_Witness ==
    /\ last.op = "update" /\ last.status = 200
    /\ last.payload.user # None
    /\ Get(last.payload.user) # Get(last.pre).user

\* C3: a recipe list returned to a user holds only recipes owned by that
\* user, with or without tag / ingredient filter parameters.
C3_ListLimitedToUser ==
    last.op = "list"
    => \A i \in 1..Len(last.data) :
          /\ last.data[i] \in DOMAIN Recipe
          /\ Recipe[last.data[i]].user = last.user

\* C3 witness: a non-empty list filtered by tag ids, while a recipe of
\* another user carries one of the requested tags.
C3_Witness ==
    /\ last.op = "list" /\ last.data # <<>>
    /\ last.query.tags # None /\ Get(last.query.tags) # <<>>
    /\ \E r \in DOMAIN Recipe :
          /\ Recipe[r].user # last.user
          /\ Recipe[r].tags \cap params_to_ints(Get(last.query.tags)) # {}

\* C4: an update or delete that targets a recipe or a tag owned by another
\* user is answered 404 and leaves every table as it was.
C4_OtherUsersRowNotFound ==
    [][/\ (/\ last'.op \in {"update", "destroy"}
           /\ last'.id \in DOMAIN Recipe
           /\ Recipe[last'.id].user # last'.user)
          => (last'.status = 404 /\ UNCHANGED storeVars)
       /\ (/\ last'.op \in {"update_tag", "destroy_tag"}
           /\ last'.id \in DOMAIN Tag
           /\ Tag[last'.id].user # last'.user)
          => (last'.status = 404 /\ UNCHANGED storeVars)]_vars

\* C4 witness: a delete answered 404 whose target exists, belongs to
\* another user and still has its tags and ingredients.
C4_Witness ==
    /\ last.op = "destroy" /\ last.status = 404
    /\ last.id \in DOMAIN Recipe
    /\ Recipe[last.id].user # last.user
    /\ Recipe[last.id].tags # {}
    /\ Recipe[last.id].ingredients # {}

\* C5: a create whose tag names have no row of the owner yields a recipe of
\* the requesting user with exactly one tag per distinct name, each newly
\* created and owned by the requesting user.
C5_CreateWithNewTags ==
    [][(/\ last'.op = "create" /\ last'.status = 201
        /\ last'.payload.tags # None
        /\ \A name \in SeqToSet(Get(last'.payload.tags)) :
              RowsOf(Tag, last'.user, name) = {})
       => LET names == SeqToSet(Get(last'.payload.tags))
              recipe == Recipe'[last'.id]
          IN  /\ recipe.user = last'.user
              /\ Cardinality(recipe.tags) = Cardinality(names)
              /\ {Tag'[t].name : t \in recipe.tags} = names
              /\ \A t \in recipe.tags :
                    t \notin DOMAIN Tag /\ Tag'[t].user = last'.user]_vars

\* C6: an update with a tag list (each name once) leaves the recipe with
\* exactly the named tags, attaches the owner's existing row of a name when
\* there is one, and deletes no Tag row.
C6_UpdateReplacesTags ==
    [][(/\ last'.op = "update" /\ last'.status = 200
        /\ last'.payload.tags # None
        /\ NoRepeat(Get(last'.payload.tags)))
       => LET names == SeqToSet(Get(last'.payload.tags))
              recipe == Recipe'[last'.id]
          IN  /\ {Tag'[t].name : t \in recipe.tags} = names
              /\ Cardinality(recipe.tags) = Cardinality(names)
              /\ \A name \in names :
                    RowsOf(Tag, last'.user, name) # {}
                    => recipe.tags \cap RowsOf(Tag, last'.user, name) # {}
              /\ \A t \in DOMAIN Tag : t \in DOMAIN Tag' /\ Tag'[t] = Tag[t]]_vars

\* C7: an update with tags given as the empty list leaves the recipe with
\* no tag and the Tag table as it was.
C7_ClearTags ==
    [][(Reconciles /\ last'.op = "update" /\ last'.payload.tags = Some(<<>>))
       => (Recipe'[last'.id].tags = {} /\ Tag' = Tag)]_vars

\* C7 witness: a successful update with tags = [] of a recipe that had tags.
C7_Witness ==
    /\ last.op = "update" /\ last.status = 200
    /\ last.payload.tags = Some(<<>>)
    /\ Get(last.pre).tags # {}
    /\ Recipe[last.id].tags = {}

\* C8: a create with an ingredient list succeeds and leaves the recipe with
\* exactly one ingredient of the owner per distinct name, the owner's
\* existing row of a name being the one attached.
C8_CreateWithIngredients ==
    [][(last'.op = "create" /\ last'.payload.ingredients # None)
       => LET names == SeqToSet(Get(last'.payload.ingredients))
              recipe == Recipe'[last'.id]
          IN  /\ last'.status = 201
              /\ {Ingredient'[i].name : i \in recipe.ingredients} = names
              /\ Cardinality(recipe.ingredients) = Cardinality(names)
              /\ \A i \in recipe.ingredients : Ingredient'[i].user = last'.user
              /\ \A name \in names :
                    RowsOf(Ingredient, last'.user, name) # {}
                    => recipe.ingredients
                          \cap RowsOf(Ingredient, last'.user, name) # {}]_vars

\* C9: an update with an ingredient list succeeds and leaves the recipe with
\* exactly the named ingredients (none for the empty list).
C9_UpdateReplacesIngredients ==
    (last.op = "update" /\ last.status # 404 /\ last.status # 400
       /\ last.payload.ingredients # None)
    => /\ last.status = 200
       /\ {Ingredient[i].name : i \in Recipe[last.id].ingredients}
             = SeqToSet(Get(last.payload.ingredients))
       /\ \A i \in Recipe[last.id].ingredients :
             Ingredient[i].user = last.user

\* C10: an update leaves the tag set as it was when the body has no 'tags'
\* and the ingredient set as it was when the body has no 'ingredients',
\* whatever else the body carries.
C10_AbsentListUntouched ==
    (last.op = "update" /\ last.pre # None)
    => /\ last.payload.tags = None
          => Recipe[last.id].tags = Get(last.pre).tags
       /\ last.payload.ingredients = None
          => Recipe[last.id].ingredients = Get(last.pre).ingredients

\* C10 witness: a successful update of the title alone on a recipe that has
\* tags and ingredients.
C10_Witness ==
    /\ last.op = "update" /\ last.status = 200
    /\ last.payload.tags = None /\ last.payload.ingredients = None
    /\ last.payload.title # None
    /\ Get(last.payload.title) # Get(last.pre).title
    /\ Recipe[last.id].title = Get(last.payload.title)
    /\ Recipe[last.id].tags # {}
    /\ Recipe[last.id].ingredients # {}

\* The names a list holds more than once.
Repeated(s) == {s[i] : i \in {k \in 1..Len(s) : \E j \in 1..Len(s) : j # k /\ s[j] = s[k]}}

\* C12: a create or update whose tag list holds a name more than once adds
\* at most one Tag row of the owner for that name and leaves the recipe
\* associated with exactly one row of that name.
C12_RepeatedNameOneRow ==
    [][(Reconciles /\ last'.payload.tags # None)
       => \A name \in Repeated(Get(last'.payload.tags)) :
            LET before == RowsOf(Tag, last'.user, name)
                after == RowsOf(Tag', last'.user, name)
            IN  /\ Cardinality(after \ before) <= 1
                /\ Cardinality(Recipe'[last'.id].tags \cap after) = 1]_vars

\* C14: every tag and every ingredient associated with a recipe is a row
\* of its table owned by the recipe's owner.
C14_AssociationsSameOwner ==
    \A r \in DOMAIN Recipe :
        /\ \A t \in Recipe[r].tags :
              t \in DOMAIN Tag /\ Tag[t].user = Recipe[r].user
        /\ \A i \in Recipe[r].ingredients :
              i \in DOMAIN Ingredient /\ Ingredient[i].user = Recipe[r].user

\* C14 witness: a request of one user has just attached tags to a recipe
\* while a recipe of the other user carries tags and ingredients.
C14_Witness ==
    /\ last.op \in {"create", "update"} /\ last.status \in {200, 201}
    /\ last.payload.tags # None /\ Get(last.payload.tags) # <<>>
    /\ Recipe[last.id].tags # {}
    /\ \E r \in DOMAIN Recipe :
          /\ Recipe[r].user # last.user
          /\ Recipe[r].tags # {}
          /\ Recipe[r].ingredients # {}

\* A parameter of the list query that is given and not empty.
Given(param) == param # None /\ Get(param) # <<>>

\* s runs through the members of S, each once, highest first.
DescendingOnce(s, S) ==
    /\ SeqToSet(s) = S
    /\ \A i, j \in 1..Len(s) : i < j => s[i] > s[j]

\* C15 as stated: a filtered list is the requester's recipes that carry one
\* of the given tag ids or one of the given ingredient ids, each once,
\* highest id first.
C15_FilterIsUnion ==
    (last.op = "list" /\ (Given(last.query.tags) \/ Given(last.query.ingredients)))
    => DescendingOnce(last.data,
          {r \in DOMAIN Recipe :
              /\ Recipe[r].user = last.user
              /\ \/ /\ Given(last.query.tags)
                    /\ Recipe[r].tags
                          \cap params_to_ints(Get(last.query.tags)) # {}
                 \/ /\ Given(last.query.ingredients)
                    /\ Recipe[r].ingredients
                          \cap params_to_ints(Get(last.query.ingredients)) # {}})

\* C15 amended: a list is the requester's recipes that carry one of the
\* given tag ids when tag ids are given and one of the given ingredient ids
\* when ingredient ids are given (both conditions when both parameters are
\* given), each recipe once, highest id first.
C15_FilterIsUnionPerParameter ==
    last.op = "list"
    => DescendingOnce(last.data,
          {r \in DOMAIN Recipe :
              /\ Recipe[r].user = last.user
              /\ Given(last.query.tags)
                 => Recipe[r].tags
                       \cap params_to_ints(Get(last.query.tags)) # {}
              /\ Given(last.query.ingredients)
                 => Recipe[r].ingredients
                       \cap params_to_ints(Get(last.query.ingredients)) # {}})

\* C15 witness: both parameters are given with two tag ids; the listed
\* recipe carries a given tag id and a given ingredient id, and another
\* recipe of the requester carries a given tag id but no given ingredient id.
C15_Witness ==
    /\ last.op = "list"
    /\ Given(last.query.tags) /\ Given(last.query.ingredients)
    /\ Cardinality(params_to_ints(Get(last.query.tags))) = 2
    /\ last.data # <<>>
    /\ \E r \in DOMAIN Recipe \ SeqToSet(last.data) :
          /\ Recipe[r].user = last.user
          /\ Recipe[r].tags \cap params_to_ints(Get(last.query.tags)) # {}

\* C13: when several rows of the owner already carry a name that a create
\* or update resolves, the request succeeds, adds no row of that name and
\* leaves the recipe associated with exactly one of the rows there were.
C13_TieBreak ==
    [][Reconciles
       => /\ last'.payload.tags # None
             => \A name \in SeqToSet(Get(last'.payload.tags)) :
                   LET before == RowsOf(Tag, last'.user, name)
                   IN  Cardinality(before) >= 2
                       => /\ last'.status \in {200, 201}
                          /\ RowsOf(Tag', last'.user, name) = before
                          /\ Cardinality(Recipe'[last'.id].tags \cap before) = 1
          /\ last'.payload.ingredients # None
             => \A name \in SeqToSet(Get(last'.payload.ingredients)) :
                   LET before == RowsOf(Ingredient, last'.user, name)
                   IN  Cardinality(before) >= 2
                       => /\ last'.status \in {200, 201}
                          /\ RowsOf(Ingredient', last'.user, name) = before
                          /\ Cardinality(Recipe'[last'.id].ingredients
                                            \cap before) = 1]_vars

\* A worker's request is over, with a response of success or of failure.
Finished(w) == workers[w].pc \in {"done", "failed"}

\* C11: once two create requests of one user have both finished, a name
\* that both tag lists (or both ingredient lists) hold and that had no row
\* of the user before has at most one row of the user.
C11_ConcurrentCreateOneRow ==
    (\A w \in Workers : Finished(w))
    => \A w1, w2 \in Workers :
          (w1 # w2 /\ workers[w1].user = workers[w2].user)
          => LET u == workers[w1].user
             IN  /\ \A name \in SeqToSet(workers[w1].data.tags)
                                   \cap SeqToSet(workers[w2].data.tags) :
                        RowsOf(SeedTag, u, name) = {}
                        => Cardinality(RowsOf(Tag, u, name)) <= 1
                 /\ \A name \in SeqToSet(workers[w1].data.ingredients)
                                   \cap SeqToSet(workers[w2].data.ingredients) :
                        RowsOf(SeedIngredient, u, name) = {}
                        => Cardinality(RowsOf(Ingredient, u, name)) <= 1

\* C16: wait_for_db writes 'Database Avaliable!' and returns only after a
\* check that did not raise; a check that raises Psycopg2Error or
\* OperationalError is followed by the sleep and the sleep by the next
\* check; once the database is available for good the command returns; and
\* as long as every check has raised it has not returned.
C16_WaitForDb ==
    /\ []((cmd.pc = "done" \/ "Database Avaliable!" \in SeqToSet(cmd.stdout))
          => cmd.checked = "ok")
    /\ [][(cmd.pc = "loop" /\ cmd' # cmd /\ CheckOutcome(db) # "ok")
          => (cmd'.pc = "sleep" /\ cmd'.slept = cmd.slept)]_vars
    /\ [][(cmd.pc = "sleep" /\ cmd' # cmd)
          => (cmd'.pc = "loop" /\ cmd'.slept = cmd.slept + 1)]_vars
    /\ (<>[](db = "up") => <>(cmd.pc = "done"))

\* C16 witness: the command has returned after two checks that raised, a
\* sleep after each, and a check that did not.
C16_Witness ==
    /\ cmd.pc = "done"
    /\ cmd.slept = 2
    /\ cmd.checked = "ok"
    /\ Len(cmd.stdout) = 4

====
